---------------------------- MODULE Spec2Model ----------------------------
(***************************************************************************)
(* A model of the EPUB reader (rn-expo-ebub-reader): the App component of  *)
(* app/index.tsx, its loadEpub pipeline (container.xml -> package document *)
(* -> metadata and cover -> chapters) and the chapter transducer           *)
(* (extractTitle, extractTextFromHtml).                                    *)
(*                                                                         *)
(* Text is modelled as a sequence of tokens.  A token is a chunk of        *)
(* characters the regular expressions of the source never split: a         *)
(* character ("a", " ", "\n", "<", "&"), the tail of a named entity        *)
(* ("amp;", "nbsp;": the entity &amp; is the two tokens "&", "amp;") or a  *)
(* whole tag ("<p>", "</li>").  The string a sequence stands for is the    *)
(* concatenation of its tokens, so that decoding "&" "amp;" "nbsp;" leaves *)
(* "&" "nbsp;", which is the entity &nbsp; as in the program.  Tags are    *)
(* matched case-insensitively by the source (flag i); a tag token stands   *)
(* for the tag in any letter case and with any attributes.                 *)
(***************************************************************************)
EXTENDS Integers, Sequences, FiniteSets, TLC

(***************************************************************************)
(* Tokens                                                                  *)
(***************************************************************************)
NL == "\n"
CR == "\r"
SP == " "
TAB == "\t"
Bullet == "(bullet)"
Amp == "&"
Lt == "<"
Gt == ">"

\* The characters JavaScript's \s and String.prototype.trim treat as blank.
WS == {SP, TAB, CR, NL}
\* The characters the regular expression dot does not match.
LineTerminators == {NL, CR}

TagBodyOpen == {"<body>"}
TagBodyClose == {"</body>"}
TagScriptOpen == {"<script>"}
TagScriptClose == {"</script>"}
TagStyleOpen == {"<style>"}
TagStyleClose == {"</style>"}
TagHeaderOpen == {"<header>"}
TagHeaderClose == {"</header>"}
TagFooterOpen == {"<footer>"}
TagFooterClose == {"</footer>"}
TagTitlePage == {"<div class=\"titlepage\">"}
TagDivOpen == {"<div>"} \cup TagTitlePage
TagDivClose == {"</div>"}
TagSectionOpen == {"<section>"}
TagSectionClose == {"</section>"}
TagH1Open == {"<h1>"}
TagH1Close == {"</h1>"}
TagH2Open == {"<h2>"}
TagH2Close == {"</h2>"}
TagTitleOpen == {"<title>"}
TagTitleClose == {"</title>"}
TagHeadingOpen == {"<h1>", "<h2>", "<h3>", "<h4>", "<h5>", "<h6>"}
TagHeadingClose == {"</h1>", "</h2>", "</h3>", "</h4>", "</h5>", "</h6>"}
TagOlOpen == {"<ol>"}
TagOlClose == {"</ol>"}
TagUlOpen == {"<ul>"}
TagUlClose == {"</ul>"}
TagLiOpen == {"<li>"}
TagLiClose == {"</li>"}
TagNav == {"<nav>", "</nav>"}
TagAOpen == {"<a>"}
TagAClose == {"</a>"}
TagPOpen == {"<p>"}
TagPClose == {"</p>"}
TagBr == {"<br>", "<br/>"}
TagInline == {"<b>", "</b>", "<i>", "</i>", "<span>", "</span>"}

\* Every token that is a whole tag: "<", at least one character, ">".
Tags ==
    TagBodyOpen \cup TagBodyClose \cup TagScriptOpen \cup TagScriptClose
    \cup TagStyleOpen \cup TagStyleClose \cup TagHeaderOpen \cup TagHeaderClose
    \cup TagFooterOpen \cup TagFooterClose \cup TagDivOpen \cup TagDivClose
    \cup TagSectionOpen \cup TagSectionClose \cup TagHeadingOpen
    \cup TagHeadingClose \cup TagTitleOpen \cup TagTitleClose \cup TagOlOpen
    \cup TagOlClose \cup TagUlOpen \cup TagUlClose \cup TagLiOpen
    \cup TagLiClose \cup TagNav \cup TagAOpen \cup TagAClose \cup TagPOpen
    \cup TagPClose \cup TagBr \cup TagInline

(***************************************************************************)
(* Sequence helpers                                                        *)
(***************************************************************************)
Min(S) == CHOOSE x \in S : \A y \in S : x <= y
Max(S) == CHOOSE x \in S : \A y \in S : x >= y

\* The element of a set of one element.  Val({body : x \in {e}}) is body
\* with x standing for the value of e, which is computed once.
Val(S) == CHOOSE v \in S : TRUE

\* A function over 1..n as the sequence of its values.
Tuple(f) == SubSeq(f, 1, Len(f))

Idx(s) == Tuple([i \in 1..Len(s) |-> i])

\* The first index >= from whose token is in S, or 0.
FirstIn(s, S, from) ==
    LET hits == {i \in from..Len(s) : s[i] \in S}
    IN  IF hits = {} THEN 0 ELSE Min(hits)

\* The last index of the maximal run of tokens of S that starts at from
\* (from - 1 when the run is empty).
RunEnd(s, S, from) ==
    LET stops == {i \in from..Len(s) : s[i] \notin S}
    IN  IF stops = {} THEN Len(s) ELSE Min(stops) - 1

\* The first index of the maximal run of tokens of S that ends at to
\* (to + 1 when the run is empty).
RunStart(s, S, to) ==
    LET stops == {i \in 1..to : s[i] \notin S}
    IN  IF stops = {} THEN 1 ELSE Max(stops) + 1

\* The concatenation of the sequences parts[1], parts[2], ...
RECURSIVE FlatFrom(_, _)
FlatFrom(parts, i) ==
    IF i > Len(parts) THEN <<>> ELSE parts[i] \o FlatFrom(parts, i + 1)

Flat(parts) == Val({FlatFrom(v, 1) : v \in {Tuple(parts)}})

\* s.replace(/tag/g, ''): every token of S removed.
RemoveTok(s, S) == SelectSeq(s, LAMBDA t : t \notin S)

\* s.replace(/tag/g, r): every token of S replaced by the sequence r.
ReplaceTok(s, S, r) ==
    Flat([i \in 1..Len(s) |-> IF s[i] \in S THEN r ELSE <<s[i]>>])

\* s.replace(/[S]+/g, r): every maximal run of tokens of S replaced by the
\* one token r.
CollapseRuns(s, S, r) ==
    Flat([i \in 1..Len(s) |->
             IF s[i] \notin S THEN <<s[i]>>
             ELSE IF i = 1 \/ s[i - 1] \notin S THEN <<r>> ELSE <<>>])

\* String.prototype.trim: leading and trailing blanks removed.
Trim(s) ==
    LET solid == {i \in 1..Len(s) : s[i] \notin WS}
    IN  IF solid = {} THEN <<>> ELSE SubSeq(s, Min(solid), Max(solid))

\* The starts of the matches a replace with flag g finds in a text of n
\* tokens from position from on: the leftmost match, then the leftmost one
\* after its end.  ends[i] is the last index of the match of the pattern
\* that starts at i, or 0.
RECURSIVE Matches(_, _, _)
Matches(ends, n, from) ==
    LET starts == {i \in from..n : ends[i] # 0}
    IN  IF starts = {} THEN {}
        ELSE Val({{i} \cup Matches(ends, n, ends[i] + 1) : i \in {Min(starts)}})

\* s.replace(re, repl) with flag g; repl[i] is what replaces the match that
\* starts at i.
ReplaceMatches(s, ends, repl) ==
    Val({Flat([i \in 1..Len(s) |->
                  IF i \in M THEN repl[i]
                  ELSE IF \E m \in M : m < i /\ i <= ends[m] THEN <<>>
                  ELSE <<s[i]>>]) :
            M \in {Matches(ends, Len(s), 1)}})

\* The end of the match of /<x[^>]*>[\s\S]*?<\/x>/ that starts at i, or 0:
\* the first closing tag after the opening tag i.
ElementEnd(s, open, close, i) ==
    IF s[i] \in open THEN FirstIn(s, close, i + 1) ELSE 0

\* s.replace(/<x[^>]*>[\s\S]*?<\/x>/g, '')
RemoveElements(s, open, close) ==
    ReplaceMatches(s, [i \in 1..Len(s) |-> ElementEnd(s, open, close, i)],
                   [i \in 1..Len(s) |-> <<>>])

\* s.split(sep): the pieces between the separators.
SplitOn(s, sep) ==
    Val({Tuple([k \in 1..(Len(seps) + 1) |->
                   SubSeq(s, IF k = 1 THEN 1 ELSE seps[k - 1] + 1,
                             IF k > Len(seps) THEN Len(s) ELSE seps[k] - 1)]) :
            seps \in {SelectSeq(Idx(s), LAMBDA i : s[i] = sep)}})

\* ls.join(sep)
Join(ls, sep) ==
    Val({Flat([k \in 1..Len(v) |-> IF k = 1 THEN v[1] ELSE <<sep>> \o v[k]]) :
            v \in {ls}})

(***************************************************************************)
(* extractTitle                                                            *)
(***************************************************************************)
\* The end of the match of /<[^>]+>/ that starts at i, or 0: a tag token, or
\* a "<" character up to the first ">" after it with a character between.
TagEnd(s, i) ==
    IF s[i] \in Tags THEN i
    ELSE IF s[i] # Lt THEN 0
    ELSE LET j == FirstIn(s, Tags \cup {Gt}, i + 1)
         IN  IF j = 0 \/ (j = i + 1 /\ s[j] = Gt) THEN 0 ELSE j

\* text.replace(/<[^>]+>/g, '')
StripTags(s) ==
    ReplaceMatches(s, [i \in 1..Len(s) |-> TagEnd(s, i)],
                   [i \in 1..Len(s) |-> <<>>])

\* The end of the match of /<x[^>]*>(.*?)<\/x>/ that starts at i, or 0: the
\* first closing tag after the opening tag i, when no line terminator
\* stands between them (the dot does not match one).
DotElementEnd(s, open, close, i) ==
    IF s[i] \notin open THEN 0
    ELSE LET j == FirstIn(s, close, i + 1)
         IN  IF j = 0 \/ \E k \in (i + 1)..(j - 1) : s[k] \in LineTerminators
             THEN 0 ELSE j

\* html.match(/<x[^>]*>(.*?)<\/x>/i): <<i, j>>, the opening and closing tag
\* of the leftmost match, or <<0, 0>>.
MatchElement(s, open, close) ==
    LET starts == {i \in 1..Len(s) : DotElementEnd(s, open, close, i) # 0}
    IN  IF starts = {} THEN <<0, 0>>
        ELSE <<Min(starts), DotElementEnd(s, open, close, Min(starts))>>

\* m[1].replace(/<[^>]+>/g, '').trim()
TitleText(s, m) ==
    Val({Trim(t) : t \in {StripTags(SubSeq(s, m[1] + 1, m[2] - 1))}})

DefaultTitle == <<"Chapter">>

extractTitle(html) ==
    Val({IF h1Match[1] # 0 THEN TitleText(html, h1Match)
         ELSE IF h2Match[1] # 0 THEN TitleText(html, h2Match)
         ELSE IF titleMatch[1] # 0 THEN TitleText(html, titleMatch)
         ELSE DefaultTitle :
            h1Match \in {MatchElement(html, TagH1Open, TagH1Close)},
            h2Match \in {MatchElement(html, TagH2Open, TagH2Close)},
            titleMatch \in {MatchElement(html, TagTitleOpen, TagTitleClose)}})

(***************************************************************************)
(* extractTextFromHtml, one definition per group of replace calls          *)
(***************************************************************************)
\* Letter case folded, for the patterns built with flag i.
Fold(t) ==
    CASE t = "A" -> "a"
      [] t = "B" -> "b"
      [] t = "Chapter" -> "chapter"
      [] t = "CHAPTER" -> "chapter"
      [] t = "Cov" -> "cov"
      [] t = "Ch1" -> "ch1"
      [] OTHER -> t

\* text.match(/<body[^>]*>([\s\S]*?)<\/body>/i): the text between the first
\* <body> and the first </body> after it, the whole text when there is none.
BodyOf(html) ==
    LET i == FirstIn(html, TagBodyOpen, 1)
        j == IF i = 0 THEN 0 ELSE FirstIn(html, TagBodyClose, i + 1)
    IN  IF j = 0 THEN html ELSE SubSeq(html, i + 1, j - 1)

\* The end of the match of /<\/div>\s*<\/div>\s*<\/div>/ that starts at j,
\* or 0.
CloseTripleEnd(s, j) ==
    LET b == RunEnd(s, WS, j + 1) + 1
        c == RunEnd(s, WS, b + 1) + 1
    IN  IF /\ j <= Len(s) /\ s[j] \in TagDivClose
           /\ b <= Len(s) /\ s[b] \in TagDivClose
           /\ c <= Len(s) /\ s[c] \in TagDivClose
        THEN c ELSE 0

\* The end of the match of
\* /<div\s+class="titlepage"[^>]*>[\s\S]*?<\/div>\s*<\/div>\s*<\/div>/
\* that starts at i, or 0: up to the first triple of closing divs.
TitlePageEnd(s, i) ==
    IF s[i] \notin TagTitlePage THEN 0
    ELSE LET closes == {j \in (i + 1)..Len(s) : CloseTripleEnd(s, j) # 0}
         IN  IF closes = {} THEN 0 ELSE CloseTripleEnd(s, Min(closes))

StripTitlePage(text) ==
    ReplaceMatches(text, [i \in 1..Len(text) |-> TitlePageEnd(text, i)],
                   [i \in 1..Len(text) |-> <<>>])

\* The end of the match of /<h[1-6][^>]*>\s*TITLE\s*<\/h[1-6]>/i that starts
\* at i, or 0.  The title comes trimmed from extractTitle, so the blanks
\* before it are exactly the run after the opening tag.
TitleHeadingEnd(s, title, i) ==
    IF s[i] \notin TagHeadingOpen THEN 0
    ELSE LET k == RunEnd(s, WS, i + 1) + 1
             n == Len(title)
             e == RunEnd(s, WS, k + n) + 1
         IN  IF /\ k + n - 1 <= Len(s)
                /\ \A d \in 1..n : Fold(s[k + d - 1]) = Fold(title[d])
                /\ e <= Len(s)
                /\ s[e] \in TagHeadingClose
             THEN e ELSE 0

\* if (titleToRemove) text = text.replace(new RegExp(...), '')
StripTitleHeading(text, titleToRemove) ==
    IF titleToRemove = <<>> THEN text
    ELSE ReplaceMatches(text,
             [i \in 1..Len(text) |-> TitleHeadingEnd(text, titleToRemove, i)],
             [i \in 1..Len(text) |-> <<>>])

\* section and div tags go, their contents stay.
StripWrappers(text) ==
    RemoveTok(text, TagSectionOpen \cup TagSectionClose \cup TagDivOpen
                        \cup TagDivClose)

\* text.replace(/<ol[^>]*>\s*<li/gi, '<ol><li'): the blanks between a list
\* tag and the <li that follows are dropped.
TightenList(s, open) ==
    Flat([i \in 1..Len(s) |->
             IF /\ s[i] \in WS
                /\ RunStart(s, WS, i) > 1
                /\ s[RunStart(s, WS, i) - 1] \in open
                /\ RunEnd(s, WS, i) < Len(s)
                /\ s[RunEnd(s, WS, i) + 1] \in TagLiOpen
             THEN <<>> ELSE <<s[i]>>])

ListItemMark == <<NL, Bullet, SP>>

\* text.replace(/<a[^>]*>(.*?)<\/a>/gi, '$1')
UnwrapAnchors(text) ==
    ReplaceMatches(text,
        [i \in 1..Len(text) |-> DotElementEnd(text, TagAOpen, TagAClose, i)],
        [i \in 1..Len(text) |->
            SubSeq(text, i + 1, DotElementEnd(text, TagAOpen, TagAClose, i) - 1)])

\* The end of the match of /<\/p>\s*<p[^>]*>/ that starts at i, or 0.
ParagraphSeamEnd(s, i) ==
    LET k == RunEnd(s, WS, i + 1) + 1
    IN  IF s[i] \in TagPClose /\ k <= Len(s) /\ s[k] \in TagPOpen
        THEN k ELSE 0

ParagraphBreak == <<NL, NL>>

\* text.replace(/<\/p>\s*<p[^>]*>/gi, '\n\n')
JoinParagraphs(text) ==
    ReplaceMatches(text, [i \in 1..Len(text) |-> ParagraphSeamEnd(text, i)],
                   [i \in 1..Len(text) |-> ParagraphBreak])

\* The named entities the source decodes, in the order of its replace calls,
\* each with the tail of its name and its replacement.
Quot == "\""
Apos == "'"
MDash == "(mdash)"
NDash == "(ndash)"
Ellipsis == "(hellip)"

EntityTable ==
    << <<"nbsp;", SP>>, <<"amp;", Amp>>, <<"lt;", Lt>>, <<"gt;", Gt>>,
       <<"quot;", Quot>>, <<"#39;", Apos>>, <<"apos;", Apos>>,
       <<"mdash;", MDash>>, <<"ndash;", NDash>>, <<"hellip;", Ellipsis>>,
       <<"rsquo;", Apos>>, <<"lsquo;", Apos>>, <<"rdquo;", Quot>>,
       <<"ldquo;", Quot>> >>

EntityNames == {EntityTable[k][1] : k \in 1..Len(EntityTable)}

EntityLiteral(name) ==
    EntityTable[CHOOSE k \in 1..Len(EntityTable) : EntityTable[k][1] = name][2]

\* text.replace(/&name;/g, lit): one pass, the result is not scanned again.
DecodeEntity(s, name, lit) ==
    Flat([i \in 1..Len(s) |->
             IF s[i] = Amp /\ i < Len(s) /\ s[i + 1] = name THEN <<lit>>
             ELSE IF s[i] = name /\ i > 1 /\ s[i - 1] = Amp THEN <<>>
             ELSE <<s[i]>>])

\* The text as it is, for a step left out.
Unchanged(text) == text

\* text.split('\n').map(line => line.trim().replace(/\s+/g, ' ')).join('\n')
CleanLines(text) ==
    Val({Join(Tuple([k \in 1..Len(lines) |->
                        Val({CollapseRuns(line, WS, SP) :
                                line \in {Trim(lines[k])}})]), NL) :
            lines \in {SplitOn(text, NL)}})

\* text.replace(/\n{3,}/g, '\n\n'): the first two newlines of a run stay.
CollapseNewlines(text) ==
    Flat([i \in 1..Len(text) |->
             IF i >= 3 /\ text[i] = NL /\ text[i - 1] = NL /\ text[i - 2] = NL
             THEN <<>> ELSE <<text[i]>>])

\* The newlines in the run of blanks that starts at from.
NewlinesInRun(s, from) == {j \in from..RunEnd(s, WS, from) : s[j] = NL}

\* The end of the match of /\n(bullet)\s*\n/ that starts at i, or 0: \s* is
\* greedy and gives back up to the last newline of the run of blanks.
EmptyBulletEnd(s, i) ==
    IF /\ s[i] = NL
       /\ i < Len(s)
       /\ s[i + 1] = Bullet
       /\ NewlinesInRun(s, i + 2) # {}
    THEN Max(NewlinesInRun(s, i + 2)) ELSE 0

\* text.replace(/\n(bullet)\s*\n/g, '\n')
DropEmptyBullets(text) ==
    ReplaceMatches(text, [i \in 1..Len(text) |-> EmptyBulletEnd(text, i)],
                   [i \in 1..Len(text) |-> <<NL>>])

\* The end of the match of /\n\s*\n\s*\n/ that starts at i, or 0.
EmptyLinesEnd(s, i) ==
    IF s[i] = NL /\ Cardinality(NewlinesInRun(s, i + 1)) >= 2
    THEN Max(NewlinesInRun(s, i + 1)) ELSE 0

\* text.replace(/\n\s*\n\s*\n/g, '\n\n')
CleanEmptyLines(text) ==
    ReplaceMatches(text, [i \in 1..Len(text) |-> EmptyLinesEnd(text, i)],
                   [i \in 1..Len(text) |-> ParagraphBreak])

\* return text.trim()
TrimResult(text) == Trim(text)

\* The statements of extractTextFromHtml in the order of the source, each
\* named after what it matches; the entities stand in the order of
\* EntityTable.
Steps ==
    <<"body", "script", "style", "header", "footer", "titlepage", "title",
      "section, div", "line terminators", "blanks", "ol li", "ul li", "li",
      "/li", "ol", "ul", "nav", "a", "/p p", "/p", "p", "br">>
    \o Tuple([k \in 1..Len(EntityTable) |-> EntityTable[k][1]])
    \o <<"tags", "lines", "newlines", "empty bullets", "empty lines", "trim">>

\* What one statement makes of the text.
Step(step, text, titleToRemove) ==
    CASE step = "body" -> BodyOf(text)
      [] step = "script" -> RemoveElements(text, TagScriptOpen, TagScriptClose)
      [] step = "style" -> RemoveElements(text, TagStyleOpen, TagStyleClose)
      [] step = "header" -> RemoveElements(text, TagHeaderOpen, TagHeaderClose)
      [] step = "footer" -> RemoveElements(text, TagFooterOpen, TagFooterClose)
      [] step = "titlepage" -> StripTitlePage(text)
      [] step = "title" -> StripTitleHeading(text, titleToRemove)
      [] step = "section, div" -> StripWrappers(text)
      [] step = "line terminators" -> CollapseRuns(text, LineTerminators, SP)
      [] step = "blanks" -> CollapseRuns(text, WS, SP)
      [] step = "ol li" -> TightenList(text, TagOlOpen)
      [] step = "ul li" -> TightenList(text, TagUlOpen)
      [] step = "li" -> ReplaceTok(text, TagLiOpen, ListItemMark)
      [] step = "/li" -> RemoveTok(text, TagLiClose)
      [] step = "ol" -> ReplaceTok(text, TagOlOpen \cup TagOlClose, <<NL>>)
      [] step = "ul" -> ReplaceTok(text, TagUlOpen \cup TagUlClose, <<NL>>)
      [] step = "nav" -> RemoveTok(text, TagNav)
      [] step = "a" -> UnwrapAnchors(text)
      [] step = "/p p" -> JoinParagraphs(text)
      [] step = "/p" -> ReplaceTok(text, TagPClose, ParagraphBreak)
      [] step = "p" -> RemoveTok(text, TagPOpen)
      [] step = "br" -> ReplaceTok(text, TagBr, <<NL>>)
      [] step \in EntityNames -> DecodeEntity(text, step, EntityLiteral(step))
      [] step = "tags" -> StripTags(text)
      [] step = "lines" -> CleanLines(text)
      [] step = "newlines" -> CollapseNewlines(text)
      [] step = "empty bullets" -> DropEmptyBullets(text)
      [] step = "empty lines" -> CleanEmptyLines(text)
      [] step = "trim" -> TrimResult(text)

\* The text after the statements lo, ..., hi of Steps, in their order: the
\* first half applied, then the second half to its result.
RECURSIVE StepsFrom(_, _, _, _)
StepsFrom(lo, hi, text, titleToRemove) ==
    IF lo > hi THEN text
    ELSE IF lo = hi THEN Step(Steps[lo], text, titleToRemove)
    ELSE Val({StepsFrom((lo + hi) \div 2 + 1, hi, t, titleToRemove) :
                 t \in {StepsFrom(lo, (lo + hi) \div 2, text, titleToRemove)}})

extractTextFromHtml(html, titleToRemove) ==
    StepsFrom(1, Len(Steps), html, titleToRemove)

\* The chapter transducer as extractChapters applies it to one entry.
Transduce(html) ==
    Val({extractTextFromHtml(html, chapterTitle) :
            chapterTitle \in {extractTitle(html)}})

(***************************************************************************)
(* The package document and the archive                                    *)
(*                                                                         *)
(* The package document (opfContent) is the sequence of its elements in    *)
(* document order.  An element has a tag name, its attributes in the order *)
(* they are written, as <<name, value>> pairs, and the text it encloses.   *)
(* The patterns of the source never cross a ">", so each matches inside    *)
(* one element.  Attribute names are distinct within an element and are    *)
(* written in lower case; no attribute name of the model ends with         *)
(* another ("idref" does not contain the text id=), so a pattern such as   *)
(* id="x" finds exactly the attribute id.                                  *)
(***************************************************************************)
\* null, for a value that is otherwise a sequence (a path, a data URI), and
\* "no match", for a value a pattern captures with ([^"]+), never empty.
Null == <<>>
NoMatch == ""

Element(tag, attrs) == [tag |-> tag, attrs |-> attrs, text |-> <<>>]
TextElement(tag, text) == [tag |-> tag, attrs |-> <<>>, text |-> text]

\* The tag names a pattern that begins with <meta or <item also matches.
MetaTags == {"meta", "metadata"}
ItemTags == {"item", "itemref"}
ItemrefTags == {"itemref"}

\* Whether the attribute value x is the literal v of a pattern, which was
\* built with flag i when ci holds.
Same(x, v, ci) == IF ci THEN Fold(x) = Fold(v) ELSE x = v

\* The position of the attribute the pattern
\* /<tag[^>]*a="v"[^>]*b="([^"]+)"/ captures in element e, or 0: attribute
\* b, not empty, after an attribute a of value v.  Both [^>]* are greedy,
\* so the last such b is the one captured.
OrderedCapture(e, tags, a, v, ci, b) ==
    LET hits == {q \in 1..Len(e.attrs) :
                    /\ e.attrs[q][1] = b
                    /\ e.attrs[q][2] # ""
                    /\ \E p \in 1..(q - 1) :
                           e.attrs[p][1] = a /\ Same(e.attrs[p][2], v, ci)}
    IN  IF e.tag \in tags /\ hits # {} THEN Max(hits) ELSE 0

\* The same with b written before a: /<tag[^>]*b="([^"]+)"[^>]*a="v"/.
\* The first [^>]* is greedy, so again the last such b is captured.
ReverseCapture(e, tags, a, v, ci, b) ==
    LET hits == {q \in 1..Len(e.attrs) :
                    /\ e.attrs[q][1] = b
                    /\ e.attrs[q][2] # ""
                    /\ \E p \in (q + 1)..Len(e.attrs) :
                           e.attrs[p][1] = a /\ Same(e.attrs[p][2], v, ci)}
    IN  IF e.tag \in tags /\ hits # {} THEN Max(hits) ELSE 0

\* opfContent.match(re)?.[1]: the value captured in the first element of
\* the document the pattern matches, or NoMatch.
FirstOrdered(doc, tags, a, v, ci, b) ==
    LET hits == {k \in 1..Len(doc) :
                    OrderedCapture(doc[k], tags, a, v, ci, b) # 0}
    IN  IF hits = {} THEN NoMatch
        ELSE Val({e.attrs[OrderedCapture(e, tags, a, v, ci, b)][2] :
                     e \in {doc[Min(hits)]}})

FirstReverse(doc, tags, a, v, ci, b) ==
    LET hits == {k \in 1..Len(doc) :
                    ReverseCapture(doc[k], tags, a, v, ci, b) # 0}
    IN  IF hits = {} THEN NoMatch
        ELSE Val({e.attrs[ReverseCapture(e, tags, a, v, ci, b)][2] :
                     e \in {doc[Min(hits)]}})

\* m = opfContent.match(/<dc:x[^>]*>(.*?)<\/dc:x>/i); m ? m[1].trim() : dflt.
\* The dot matches no line terminator: an element whose text holds one is
\* passed over.
FirstTextOr(doc, tag, dflt) ==
    LET hits == {k \in 1..Len(doc) :
                    /\ doc[k].tag = tag
                    /\ \A i \in 1..Len(doc[k].text) :
                           doc[k].text[i] \notin LineTerminators}
    IN  IF hits = {} THEN dflt
        ELSE Val({Trim(t) : t \in {doc[Min(hits)].text}})

\* zip.file(path) is not null; file.async(...) rejects.
HasEntry(zip, path) == path \in zip.present
ReadRejects(zip, path) == path \in zip.corrupt

\* opfPath.substring(0, opfPath.lastIndexOf('/') + 1): a path is the
\* sequence of its directory tokens ("OEBPS/") and its file name.
DirTokens == {"META-INF/", "OEBPS/"}

DirOf(path) ==
    LET dirs == {i \in 1..Len(path) : path[i] \in DirTokens}
    IN  IF dirs = {} THEN <<>> ELSE SubSeq(path, 1, Max(dirs))

ContainerPath == <<"META-INF/", "container.xml">>

(***************************************************************************)
(* extractMetadata                                                         *)
(***************************************************************************)
UnknownTitle == <<"Unknown Title">>
UnknownAuthor == <<"Unknown Author">>

\* coverHref.split('.').pop()?.toLowerCase()
ExtOf(href) ==
    CASE href = "cover.jpg" -> "jpg"
      [] href = "art.JPEG" -> "jpeg"
      [] href = "cover3.png" -> "png"
      [] OTHER -> "xhtml"

MimeOf(href) ==
    IF ExtOf(href) = "jpg" \/ ExtOf(href) = "jpeg" THEN "image/jpeg"
    ELSE "image/png"

\* `data:${mimeType};base64,${coverData}`: the data of an entry is named by
\* the entry's path.
DataUri(href, coverPath) == <<"data:", MimeOf(href), ";base64,">> \o coverPath

\* The block the source repeats three times: the entry opfDir + coverHref
\* read and encoded, when it is in the archive.  The read can reject.
ReadCover(zip, opfDir, coverHref) ==
    LET coverPath == opfDir \o <<coverHref>>
    IN  IF ~HasEntry(zip, coverPath) THEN [rejected |-> FALSE, image |-> Null]
        ELSE IF ReadRejects(zip, coverPath)
        THEN [rejected |-> TRUE, image |-> Null]
        ELSE [rejected |-> FALSE, image |-> DataUri(coverHref, coverPath)]

NoCover == [rejected |-> FALSE, image |-> Null]

\* Method 1: <meta name="cover" content="cover-id"/>, either attribute order.
CoverId(opfContent) ==
    LET coverMatch1 ==
            FirstOrdered(opfContent, MetaTags, "name", "cover", TRUE, "content")
        coverMatch2 ==
            FirstReverse(opfContent, MetaTags, "name", "cover", TRUE, "content")
    IN  IF coverMatch1 # NoMatch THEN coverMatch1
        ELSE IF coverMatch2 # NoMatch THEN coverMatch2
        ELSE NoMatch

\* Method 2: <item properties="cover-image" href="..."/>, tried only when
\* method 1 found no id.
Epub3Cover(opfContent, zip, opfDir) ==
    LET epub3CoverMatch ==
            FirstOrdered(opfContent, ItemTags, "properties", "cover-image",
                         TRUE, "href")
        epub3CoverMatch2 ==
            FirstReverse(opfContent, ItemTags, "properties", "cover-image",
                         TRUE, "href")
    IN  IF epub3CoverMatch # NoMatch
        THEN ReadCover(zip, opfDir, epub3CoverMatch)
        ELSE IF epub3CoverMatch2 # NoMatch
        THEN ReadCover(zip, opfDir, epub3CoverMatch2)
        ELSE NoCover

\* coverItemMatch1?.[1] || coverItemMatch2?.[1]: the href of the manifest
\* item of the cover id, the pattern built from the id with flag i.
CoverHref(opfContent, coverId) ==
    LET coverItemMatch1 ==
            FirstOrdered(opfContent, ItemTags, "id", coverId, TRUE, "href")
        coverItemMatch2 ==
            FirstReverse(opfContent, ItemTags, "id", coverId, TRUE, "href")
    IN  IF coverItemMatch1 # NoMatch THEN coverItemMatch1 ELSE coverItemMatch2

\* The manifest lookup of the cover id, when there is an id and no image.
ManifestCover(opfContent, zip, opfDir, coverId) ==
    IF CoverHref(opfContent, coverId) = NoMatch THEN NoCover
    ELSE ReadCover(zip, opfDir, CoverHref(opfContent, coverId))

\* The metadata extractMetadata resolves to, or rejected when a read of a
\* cover entry rejects (no try/catch stands around the awaits).
extractMetadata(opfContent, zip, opfDir) ==
    Val({LET title == FirstTextOr(opfContent, "dc:title", UnknownTitle)
             author == FirstTextOr(opfContent, "dc:creator", UnknownAuthor)
             cover2 == IF coverId = NoMatch
                       THEN Epub3Cover(opfContent, zip, opfDir)
                       ELSE NoCover
             cover3 == IF coverId # NoMatch /\ cover2.image = Null
                       THEN ManifestCover(opfContent, zip, opfDir, coverId)
                       ELSE cover2
         IN  [rejected |-> cover2.rejected \/ cover3.rejected,
              title |-> title, author |-> author, coverImage |-> cover3.image] :
            coverId \in {CoverId(opfContent)}})

(***************************************************************************)
(* extractChapters                                                         *)
(***************************************************************************)
\* The value of the first attribute a of element e that is not empty, or
\* NoMatch: e.match(/a="([^"]+)"/)?.[1].
FirstAttr(e, a) ==
    LET hits == {p \in 1..Len(e.attrs) : e.attrs[p][1] = a /\ e.attrs[p][2] # ""}
    IN  IF hits = {} THEN NoMatch ELSE e.attrs[Min(hits)][2]

\* opfContent.match(/<itemref[^>]*idref="([^"]+)"/g), each mapped to its
\* idref: the spine, in document order.
ChapterIds(opfContent) ==
    LET itemRefs == SelectSeq(opfContent,
                        LAMBDA e : e.tag \in ItemrefTags
                                   /\ FirstAttr(e, "idref") # NoMatch)
    IN  Tuple([k \in 1..Len(itemRefs) |-> FirstAttr(itemRefs[k], "idref")])

\* opfContent.match(/<item[^>]*>/g): itemref elements are among them.
ManifestItems(opfContent) == SelectSeq(opfContent, LAMBDA e : e.tag \in ItemTags)

\* i.includes(`id="${id}"`): the letter case counts.
HasId(e, id) == \E p \in 1..Len(e.attrs) : e.attrs[p] = <<"id", id>>

\* items.find(...), then its href: opfDir + href, or Null when no item has
\* the id or the item found has no href.
ChapterPath(items, id, opfDir) ==
    LET hits == {k \in 1..Len(items) : HasId(items[k], id)}
    IN  IF hits = {} THEN Null
        ELSE Val({IF FirstAttr(item, "href") = NoMatch THEN Null
                  ELSE opfDir \o <<FirstAttr(item, "href")>> :
                     item \in {items[Min(hits)]}})

\* The paths of the manifest items the spine names, in the order of the
\* manifest: what extractChapters must not resolve.
ManifestOrderPaths(opfContent, opfDir) ==
    LET named == SelectSeq(opfContent,
                     LAMBDA e : /\ e.tag = "item"
                                /\ \E k \in 1..Len(ChapterIds(opfContent)) :
                                       HasId(e, ChapterIds(opfContent)[k]))
    IN  Tuple([k \in 1..Len(named) |-> opfDir \o <<FirstAttr(named[k], "href")>>])

\* The paths the loop reads, in the order it reads them (chapterFiles in
\* the first version of loadEpub).
ChapterPaths(opfContent, opfDir) ==
    Val({LET paths == Tuple([k \in 1..Len(chapterIds) |->
                                ChapterPath(items, chapterIds[k], opfDir)])
         IN  IF Len(items) = 0 THEN <<>>
             ELSE SelectSeq(paths, LAMBDA path : path # Null) :
            chapterIds \in {ChapterIds(opfContent)},
            items \in {ManifestItems(opfContent)}})

\* The body of the loop for one path: the chapter pushed, if any.  A missing
\* entry, a read that rejects (caught) and a blank text push nothing.
ChapterText(zip, chapterPath) == Transduce(zip.text[chapterPath])

\* The loop without its test of text.trim().
LoadsUntested(zip, chapterPath) ==
    HasEntry(zip, chapterPath) /\ ~ReadRejects(zip, chapterPath)

ChapterLoads(zip, chapterPath) ==
    /\ HasEntry(zip, chapterPath)
    /\ ~ReadRejects(zip, chapterPath)
    /\ Trim(ChapterText(zip, chapterPath)) # <<>>

extractChapters(opfContent, zip, opfDir) ==
    Val({Tuple([k \in 1..Len(loaded) |->
                   [title |-> extractTitle(zip.text[loaded[k]]),
                    content |-> ChapterText(zip, loaded[k])]]) :
            loaded \in {SelectSeq(ChapterPaths(opfContent, opfDir),
                                  LAMBDA path : ChapterLoads(zip, path))}})

(***************************************************************************)
(* The archives the model loads                                            *)
(*                                                                         *)
(* An archive (zip) is the set of its entries (present), the entries whose *)
(* read rejects (corrupt), the text of each entry, the full-path attribute *)
(* of container.xml (Null when the pattern finds none) and the package     *)
(* document.                                                               *)
(***************************************************************************)
OpfPaths == {<<"OEBPS/", "content.opf">>, <<"content.opf">>}
ImageHrefs == {"cover.jpg", "cover3.png", "art.JPEG"}
ChapterHrefs == {"ch1.xhtml", "ch2.xhtml", "blank.xhtml"}

\* The markup of the chapter entries.  blank.xhtml holds nothing but its
\* heading.
EntryText(href) ==
    CASE href = "ch1.xhtml" ->
             <<"<body>", "<h1>", "I", "</h1>", "<p>", "a", "</p>",
               "<p>", "b", "</p>", "</body>">>
      [] href = "ch2.xhtml" ->
             <<"<title>", "II", "</title>", "<body>", "<ul>", "<li>", "a",
               "</li>", "<li>", "b", "</li>", "</ul>", "</body>">>
      [] href = "blank.xhtml" ->
             <<"<body>", "<h1>", "III", "</h1>", SP, "<p>", "</p>", NL,
               "</body>">>
      [] OTHER -> <<>>

Entries(opfDir) == {opfDir \o <<h>> : h \in ImageHrefs \cup ChapterHrefs}

Archive(fullPath, missing, corrupt, opf) ==
    LET all == {ContainerPath} \cup OpfPaths
               \cup Entries(<<>>) \cup Entries(<<"OEBPS/">>)
    IN  [fullPath |-> fullPath,
         present |-> all \ missing,
         corrupt |-> corrupt \ missing,
         text |-> [path \in all \ missing |-> EntryText(path[Len(path)])],
         opf |-> opf]

\* <item id=... href=.../> with the attributes in the order given: "ih" for
\* id before href, "hi" for href before id.
Item(id, href, order) ==
    IF order = "ih"
    THEN Element("item", << <<"id", id>>, <<"href", href>> >>)
    ELSE Element("item", << <<"href", href>>, <<"id", id>> >>)

\* An item with a properties attribute, before ("ph") or after ("hp") href.
PropertiesItem(id, href, properties, order) ==
    IF order = "ph"
    THEN Element("item", << <<"id", id>>, <<"properties", properties>>,
                            <<"href", href>> >>)
    ELSE Element("item", << <<"href", href>>, <<"id", id>>,
                            <<"properties", properties>> >>)

\* <meta name="cover" content=.../>: "nc" for name first, "cn" for content
\* first.
CoverMeta(id, order) ==
    IF order = "nc"
    THEN Element("meta", << <<"name", "cover">>, <<"content", id>> >>)
    ELSE Element("meta", << <<"content", id>>, <<"name", "cover">> >>)

ItemRef(id) == Element("itemref", << <<"idref", id>> >>)

Spine(ids) == Tuple([k \in 1..Len(ids) |-> ItemRef(ids[k])])

StdTitle == << TextElement("dc:title", <<"T">>) >>
StdCreator == << TextElement("dc:creator", <<"W">>) >>
StdChapters ==
    << Item("ch1", "ch1.xhtml", "ih"), Item("ch2", "ch2.xhtml", "hi") >>
StdSpine == Spine(<<"ch1", "ch2">>)
StdOpf ==
    StdTitle \o StdCreator \o << CoverMeta("cov", "nc") >>
        \o << Item("cov", "cover.jpg", "ih") >> \o StdChapters \o StdSpine

\* Sequences over S of length at most n.
SeqsUpTo(S, n) == UNION {[1..k -> S] : k \in 0..n}

\* The longest spine of the archives of ChapterArchives.
MaxSpine == 3

\* Archives whose structure is broken: container.xml or the package
\* document missing or unreadable, or no full-path attribute.
StructureArchives ==
    {Archive(fullPath, missing, corrupt, StdOpf) :
        fullPath \in OpfPaths \cup {Null},
        missing \in SUBSET ({ContainerPath} \cup OpfPaths),
        corrupt \in SUBSET {ContainerPath, <<"OEBPS/", "content.opf">>}}

\* Archives with and without dc:title, dc:creator and cover declarations.
MetadataArchives ==
    {Archive(<<"OEBPS/", "content.opf">>, missing, corrupt,
             title \o creator \o cover \o StdChapters \o StdSpine) :
        title \in {<<>>, StdTitle,
                   << TextElement("dc:title", <<SP, "T", SP>>) >>,
                   << TextElement("dc:title", <<"T", NL, "U">>) >>},
        creator \in {<<>>, StdCreator},
        cover \in {<<>>,
                   << CoverMeta("cov", "nc"), Item("cov", "cover.jpg", "ih") >>,
                   << PropertiesItem("c3", "cover3.png", "cover-image", "ph") >>},
        missing \in SUBSET {<<"OEBPS/", "cover.jpg">>},
        corrupt \in SUBSET {<<"OEBPS/", "cover.jpg">>, <<"OEBPS/", "cover3.png">>}}

\* Archives that declare their cover in every combination of the two ways.
CoverArchives ==
    {Archive(<<"OEBPS/", "content.opf">>, missing, corrupt,
             StdTitle \o meta \o item \o epub3 \o StdChapters \o StdSpine) :
        meta \in {<<>>, << CoverMeta("cov", "nc") >>, << CoverMeta("cov", "cn") >>,
                  << CoverMeta("zz", "nc") >>},
        item \in {<<>>, << Item("cov", "cover.jpg", "ih") >>,
                  << Item("cov", "art.JPEG", "hi") >>},
        epub3 \in {<<>>} \cup
                  {<< PropertiesItem("c3", "cover3.png", properties, order) >> :
                       properties \in {"cover-image", "cover-image svg",
                                       "svg cover-image"},
                       order \in {"ph", "hp"}},
        missing \in SUBSET {<<"OEBPS/", "cover.jpg">>, <<"OEBPS/", "cover3.png">>},
        corrupt \in SUBSET {<<"OEBPS/", "cover.jpg">>, <<"OEBPS/", "cover3.png">>}}

\* Archives whose spine walks a manifest written in another order, names
\* ids the manifest lacks ("zz") and entries that are missing, unreadable
\* or blank.
ChapterArchives ==
    {Archive(<<"OEBPS/", "content.opf">>, missing, corrupt,
             StdTitle \o manifest \o Spine(ids)) :
        manifest \in {<< Item("ch1", "ch1.xhtml", "ih"),
                         Item("ch2", "ch2.xhtml", "hi"),
                         Item("bl", "blank.xhtml", "ih") >>,
                      << Item("bl", "blank.xhtml", "hi"),
                         Item("ch2", "ch2.xhtml", "ih"),
                         Item("ch1", "ch1.xhtml", "ih") >>},
        ids \in SeqsUpTo({"ch1", "ch2", "bl", "zz"}, MaxSpine),
        missing \in SUBSET {<<"OEBPS/", "ch1.xhtml">>},
        corrupt \in SUBSET {<<"OEBPS/", "ch2.xhtml">>}}

\* Archives whose manifest holds two items for the cover or for the one
\* chapter of the spine, with ids that are equal or differ in letter case.
ManifestArchives ==
    {Archive(<<"OEBPS/", "content.opf">>, {}, {},
             << CoverMeta("cov", "nc") >> \o items \o StdChapters \o StdSpine) :
        items \in [1..2 -> {Item(id, href, order) :
                               id \in {"cov", "Cov"},
                               href \in {"cover.jpg", "cover3.png"},
                               order \in {"ih", "hi"}}]}
    \cup
    {Archive(<<"OEBPS/", "content.opf">>, {}, {}, items \o Spine(<<"ch1">>)) :
        items \in [1..2 -> {Item(id, href, order) :
                               id \in {"ch1", "Ch1"},
                               href \in {"ch1.xhtml", "ch2.xhtml"},
                               order \in {"ih", "hi"}}]}
    \cup
    {Archive(<<"OEBPS/", "content.opf">>, {}, {},
             metas \o << Item("cov", "cover.jpg", "ih"),
                         Item("c3", "cover3.png", "hi") >>
                   \o StdChapters \o StdSpine) :
        metas \in [1..2 -> {CoverMeta(id, order) :
                               id \in {"cov", "c3"}, order \in {"nc", "cn"}}]}

Archives ==
    StructureArchives \cup MetadataArchives \cup CoverArchives
        \cup ChapterArchives \cup ManifestArchives

(***************************************************************************)
(* The App component                                                       *)
(***************************************************************************)
VARIABLES
    archive,         \* the EPUB the asset resolves to
    pc,              \* where loadEpub stands
    metadata, chapters, currentChapter, loading, error, fontSize,
    chapterFiles,    \* the chapter paths the last extractChapters resolved
    html, text, retext   \* a markup, its transduction, and that of the latter

vars == <<archive, pc, metadata, chapters, currentChapter, loading, error,
          fontSize, chapterFiles, html, text, retext>>

InitialMetadata ==
    [title |-> <<"Loading...">>, author |-> <<>>, coverImage |-> Null]
InitialFontSize == 16
MinFontSize == 12
MaxFontSize == 32
FontStep == 2

\* The state the useState calls build; the mount effect is pending.
InitApp ==
    /\ pc = "mount"
    /\ metadata = InitialMetadata
    /\ chapters = <<>>
    /\ currentChapter = 0
    /\ loading = TRUE
    /\ error = <<>>
    /\ fontSize = InitialFontSize
    /\ chapterFiles = <<>>

Init ==
    /\ InitApp
    /\ archive \in Archives
    /\ html = <<>> /\ text = <<>> /\ retext = <<>>

ui == <<currentChapter, fontSize>>
transducer == <<html, text, retext>>

\* The catch block without its setLoading(false).
FailStillLoading(message) ==
    /\ error' = <<"Failed to load EPUB: ", message>>
    /\ pc' = "failed"
    /\ UNCHANGED <<archive, metadata, chapters, chapterFiles, loading, ui,
                   transducer>>

\* catch (err): setError('Failed to load EPUB: ' + message); setLoading(false)
Fail(message) ==
    /\ error' = <<"Failed to load EPUB: ", message>>
    /\ loading' = FALSE
    /\ pc' = "failed"
    /\ UNCHANGED <<archive, metadata, chapters, chapterFiles, ui, transducer>>

\* The messages of a rejected download or decode of the asset, and of a
\* rejected read of an entry.
DownloadError == "download error"
ReadError == "read error"

\* loadEpub up to its first await: setLoading(true).
StartLoad ==
    /\ loading' = TRUE
    /\ pc' = "open"
    /\ UNCHANGED <<archive, metadata, chapters, chapterFiles, error, ui, transducer>>

\* useEffect(() => { loadEpub(); }, [])
Mount == pc = "mount" /\ StartLoad

\* The error screen is rendered when loading is false and error is not
\* empty; its Retry button calls loadEpub.
ErrorScreen == ~loading /\ error # <<>>
ReaderView == ~loading /\ error = <<>>

Retry == pc \in {"failed", "done"} /\ ErrorScreen /\ StartLoad

\* asset.downloadAsync(), file.base64(), JSZip.loadAsync(): each can reject.
OpenArchive ==
    /\ pc = "open"
    /\ \E rejects \in BOOLEAN :
           IF rejects THEN Fail(DownloadError)
           ELSE /\ pc' = "container"
                /\ UNCHANGED <<archive, metadata, chapters, chapterFiles,
                               loading, error, ui, transducer>>

\* loadEpub without its throw statements.
NoContainerError(zip) == ""

\* The message loadEpub throws between opening the archive and reading the
\* package document, or "" when it reaches extractMetadata.
ContainerError(zip) ==
    IF ~HasEntry(zip, ContainerPath) THEN "Invalid EPUB: Missing container.xml"
    ELSE IF ReadRejects(zip, ContainerPath) THEN ReadError
    ELSE IF zip.fullPath = Null THEN "Invalid EPUB: Cannot find OPF path"
    ELSE IF ~HasEntry(zip, zip.fullPath) THEN "Invalid EPUB: Missing OPF file"
    ELSE IF ReadRejects(zip, zip.fullPath) THEN ReadError
    ELSE ""

ReadContainer ==
    /\ pc = "container"
    /\ IF ContainerError(archive) # "" THEN Fail(ContainerError(archive))
       ELSE /\ pc' = "metadata"
            /\ UNCHANGED <<archive, metadata, chapters, chapterFiles,
                           loading, error, ui, transducer>>

\* const bookMetadata = await extractMetadata(...); setMetadata(bookMetadata)
ExtractMetadataStep ==
    /\ pc = "metadata"
    /\ \E m \in {extractMetadata(archive.opf, archive, DirOf(archive.fullPath))} :
           IF m.rejected THEN Fail(ReadError)
           ELSE /\ metadata' = [title |-> m.title, author |-> m.author,
                                coverImage |-> m.coverImage]
                /\ pc' = "chapters"
                /\ UNCHANGED <<archive, chapters, chapterFiles, loading,
                               error, ui, transducer>>

\* const bookChapters = await extractChapters(...); setChapters(bookChapters);
\* setLoading(false)
ExtractChaptersStep ==
    /\ pc = "chapters"
    /\ chapters' = extractChapters(archive.opf, archive, DirOf(archive.fullPath))
    /\ chapterFiles' = ChapterPaths(archive.opf, DirOf(archive.fullPath))
    /\ loading' = FALSE
    /\ pc' = "done"
    /\ UNCHANGED <<archive, metadata, error, ui, transducer>>

\* nextChapter with its test off by one.
NextChapterPastEnd ==
    /\ ReaderView
    /\ currentChapter < Len(chapters)
    /\ currentChapter' = currentChapter + 1
    /\ UNCHANGED <<archive, pc, metadata, chapters, chapterFiles, loading,
                   error, fontSize, transducer>>

nextChapter ==
    /\ ReaderView
    /\ currentChapter < Len(chapters) - 1
    /\ currentChapter' = currentChapter + 1
    /\ UNCHANGED <<archive, pc, metadata, chapters, chapterFiles, loading,
                   error, fontSize, transducer>>

previousChapter ==
    /\ ReaderView
    /\ currentChapter > 0
    /\ currentChapter' = currentChapter - 1
    /\ UNCHANGED <<archive, pc, metadata, chapters, chapterFiles, loading,
                   error, fontSize, transducer>>

\* increaseFontSize without its test of the size.
IncreaseUnguarded ==
    /\ ReaderView
    /\ fontSize' = fontSize + FontStep
    /\ UNCHANGED <<archive, pc, metadata, chapters, chapterFiles, loading,
                   error, currentChapter, transducer>>

increaseFontSize ==
    /\ ReaderView
    /\ fontSize < MaxFontSize
    /\ fontSize' = fontSize + FontStep
    /\ UNCHANGED <<archive, pc, metadata, chapters, chapterFiles, loading,
                   error, currentChapter, transducer>>

decreaseFontSize ==
    /\ ReaderView
    /\ fontSize > MinFontSize
    /\ fontSize' = fontSize - FontStep
    /\ UNCHANGED <<archive, pc, metadata, chapters, chapterFiles, loading,
                   error, currentChapter, transducer>>

Next ==
    \/ Mount
    \/ Retry
    \/ OpenArchive
    \/ ReadContainer
    \/ ExtractMetadataStep
    \/ ExtractChaptersStep
    \/ nextChapter
    \/ previousChapter
    \/ increaseFontSize
    \/ decreaseFontSize

Spec == Init /\ [][Next]_vars

\* The steps loadEpub takes by itself: the mount effect runs, and every
\* awaited operation completes or rejects.  Pressing a button is up to the
\* user.
LoadStep ==
    \/ Mount
    \/ OpenArchive
    \/ ReadContainer
    \/ ExtractMetadataStep
    \/ ExtractChaptersStep

\* The archives on which the load takes each of its ways out: broken at
\* the container or at the package document, a cover whose read rejects,
\* and whole.
InitLive ==
    /\ InitApp
    /\ archive \in StructureArchives \cup MetadataArchives
    /\ html = <<>> /\ text = <<>> /\ retext = <<>>

SpecLive == InitLive /\ [][Next]_vars /\ WF_vars(LoadStep)

(***************************************************************************)
(* The chapter transducer on its own                                       *)
(*                                                                         *)
(* A markup is transduced as extractChapters transduces an entry, then the *)
(* content it gave is transduced as if it were a markup.                   *)
(***************************************************************************)
\* The longest markup drawn from MarkupTokens.
MaxLen == 4

MarkupTokens ==
    {"a", SP, NL, "<p>", "</p>", "<li>", "<br>", Amp, "amp;", "nbsp;", "lt;",
     "gt;"}

\* Longer markups: entities that decode to a tag, blanks that an entity
\* leaves inside a line, an entity of an entity, lists and paragraphs.
LongMarkups ==
    {<<Amp, "lt;", "a", Amp, "gt;">>,
     <<"a", Amp, "nbsp;", SP, "a">>,
     <<"a", Amp, "amp;", "nbsp;", "a">>,
     <<"a", "<li>", "</li>", "<li>", "</li>", "a">>,
     <<"<body>", "<h1>", "I", "</h1>", "<p>", "a", SP, "a", "</p>", NL,
       "<ul>", "<li>", "a", "</li>", "<li>", "a", "</li>", "</ul>", "</body>">>}

Markups == SeqsUpTo(MarkupTokens, MaxLen) \cup LongMarkups

InitText ==
    /\ pc = "markup"
    /\ archive = Archive(Null, {}, {}, <<>>)
    /\ html \in Markups
    /\ text = <<>> /\ retext = <<>>
    /\ metadata = InitialMetadata
    /\ chapters = <<>>
    /\ currentChapter = 0
    /\ loading = TRUE
    /\ error = <<>>
    /\ fontSize = InitialFontSize
    /\ chapterFiles = <<>>

\* html is read as an entry is: its title, and its content.
TransduceMarkup ==
    /\ pc = "markup"
    /\ text' = Transduce(html)
    /\ chapters' = << [title |-> extractTitle(html), content |-> text'] >>
    /\ pc' = "content"
    /\ UNCHANGED <<archive, metadata, chapterFiles, loading, error, ui, html, retext>>

\* The content is given to the transducer again.
TransduceContent ==
    /\ pc = "content"
    /\ retext' = Transduce(text)
    /\ pc' = "again"
    /\ UNCHANGED <<archive, metadata, chapters, chapterFiles, loading, error,
                   ui, html, text>>

NextText == TransduceMarkup \/ TransduceContent

SpecText == InitText /\ [][NextText]_vars

(***************************************************************************)
(* extractTitle on its own: markups of headings and title elements         *)
(***************************************************************************)
\* The longest markup drawn from TitleTokens.
MaxTitleLen == 4

TitleTokens ==
    {"<h1>", "</h1>", "<h2>", "</h2>", "<title>", "</title>", "<b>", "a", SP,
     NL}

\* Longer markups: a heading of two lines before a heading of one line, and
\* a whole entry.
LongTitleMarkups ==
    {<<"<h1>", "a", NL, "b", "</h1>", "<h2>", "c", "</h2>">>,
     <<"<h1>", "a", NL, "b", "</h1>", "<h1>", "c", "</h1>">>,
     <<"<title>", "I", "</title>", "<body>", "<h2>", "a", "</h2>", "<h1>", SP,
       "<b>", "b", "</b>", "</h1>", "<p>", "c", "</p>", "</body>">>}

TitleMarkups == SeqsUpTo(TitleTokens, MaxTitleLen) \cup LongTitleMarkups

InitTitle ==
    /\ pc = "markup"
    /\ archive = Archive(Null, {}, {}, <<>>)
    /\ html \in TitleMarkups
    /\ text = <<>> /\ retext = <<>>
    /\ metadata = InitialMetadata
    /\ chapters = <<>>
    /\ currentChapter = 0
    /\ loading = TRUE
    /\ error = <<>>
    /\ fontSize = InitialFontSize
    /\ chapterFiles = <<>>

SpecTitle == InitTitle /\ [][NextText]_vars

(***************************************************************************)
(* What the claims speak of, read off the archive itself                   *)
(***************************************************************************)
AttrOf(e, a) == e.attrs[CHOOSE p \in 1..Len(e.attrs) : e.attrs[p][1] = a][2]
HasAttr(e, a) == \E p \in 1..Len(e.attrs) : e.attrs[p][1] = a

SpineOf(doc) ==
    LET refs == SelectSeq(doc, LAMBDA e : e.tag = "itemref")
    IN  Tuple([k \in 1..Len(refs) |-> AttrOf(refs[k], "idref")])

ManifestOf(doc) == SelectSeq(doc, LAMBDA e : e.tag = "item")

OpfDir == DirOf(archive.fullPath)

\* The archive has a container that names a package document it holds.
Broken ==
    \/ ContainerPath \notin archive.present
    \/ archive.fullPath = Null
    \/ archive.fullPath \notin archive.present

\* Every read of the container and of the package document succeeds.
Readable ==
    /\ ~Broken
    /\ ContainerPath \notin archive.corrupt
    /\ archive.fullPath \notin archive.corrupt

\* The entries of the model whose text is not blank, and their titles.
SolidEntries == {"ch1.xhtml", "ch2.xhtml"}
TitleOfEntry(href) == IF href = "ch1.xhtml" THEN <<"I">> ELSE <<"II">>

Delivered(path) ==
    /\ path \in archive.present
    /\ path \notin archive.corrupt
    /\ path[Len(path)] \in SolidEntries

(***************************************************************************)
(* C1: the chapter paths extractChapters resolves are the spine idrefs     *)
(* that have a manifest item, in spine order, each one opfDir + the href   *)
(* of a manifest item of that id; an idref without an item is dropped.     *)
(***************************************************************************)
C1_SpineOrder ==
    pc = "done" =>
        LET manifest == ManifestOf(archive.opf)
            known == SelectSeq(SpineOf(archive.opf),
                         LAMBDA id : \E j \in 1..Len(manifest) :
                                        AttrOf(manifest[j], "id") = id)
        IN  /\ Len(chapterFiles) = Len(known)
            /\ \A k \in 1..Len(known) :
                   \E j \in 1..Len(manifest) :
                       /\ AttrOf(manifest[j], "id") = known[k]
                       /\ chapterFiles[k] = OpfDir \o <<AttrOf(manifest[j], "href")>>

\* A spine that walks the manifest backwards around an id the manifest lacks.
C1_Witness ==
    /\ pc = "done"
    /\ SpineOf(archive.opf) = <<"ch2", "zz", "ch1">>
    /\ AttrOf(ManifestOf(archive.opf)[1], "id") = "ch1"
    /\ chapterFiles = << <<"OEBPS/", "ch2.xhtml">>, <<"OEBPS/", "ch1.xhtml">> >>

(***************************************************************************)
(* C2: when container.xml is absent, has no full-path, or names a package  *)
(* document the archive lacks, the load never passes the container step,   *)
(* it ends failed with a message, and metadata and chapters stay as they   *)
(* were.                                                                   *)
(***************************************************************************)
C2_BrokenArchiveFails ==
    Broken =>
        /\ pc \notin {"metadata", "chapters", "done"}
        /\ metadata = InitialMetadata
        /\ chapters = <<>>
        /\ pc = "failed" =>
               /\ ~loading
               /\ Len(error) = 2
               /\ error[2] # ""

C2_Witness ==
    /\ Broken
    /\ pc = "failed"
    /\ error = <<"Failed to load EPUB: ", "Invalid EPUB: Missing OPF file">>
    /\ metadata = InitialMetadata

(***************************************************************************)
(* C6: a spine entry that is missing, whose read rejects or whose text is  *)
(* blank is left out alone: the chapter step always ends the load without  *)
(* touching the error, the chapters delivered are the other entries in     *)
(* spine order, and each has content that is not blank.                    *)
(***************************************************************************)
C6_ChaptersIsolated ==
    /\ [](pc = "done" =>
            LET good == SelectSeq(chapterFiles, Delivered)
            IN  /\ ~loading
                /\ Len(chapters) = Len(good)
                /\ \A k \in 1..Len(good) :
                       /\ chapters[k].title = TitleOfEntry(good[k][Len(good[k])])
                       /\ Trim(chapters[k].content) # <<>>)
    /\ [][pc = "chapters" => pc' = "done" /\ error' = error]_vars

\* A spine with a missing entry, a blank one and a good one.
C6_Witness ==
    /\ pc = "done"
    /\ <<"OEBPS/", "ch1.xhtml">> \notin archive.present
    /\ chapterFiles = << <<"OEBPS/", "ch1.xhtml">>, <<"OEBPS/", "blank.xhtml">>,
                         <<"OEBPS/", "ch2.xhtml">> >>
    /\ Len(chapters) = 1
    /\ chapters[1].title = <<"II">>
    /\ error = <<>>

(***************************************************************************)
(* C10: the content extractTextFromHtml returns has no run of three or     *)
(* more newlines and neither begins nor ends with a blank.                 *)
(***************************************************************************)
Tidy(s) ==
    /\ \A i \in 1..(Len(s) - 2) : ~(s[i] = NL /\ s[i + 1] = NL /\ s[i + 2] = NL)
    /\ s # <<>> => s[1] \notin WS /\ s[Len(s)] \notin WS

C10_NoBlankRuns ==
    /\ pc \in {"content", "again"} => Tidy(text)
    /\ pc = "again" => Tidy(retext)

\* Three newlines in a row before the clean-up, between two words.
C10_Witness ==
    /\ pc = "content"
    /\ html = <<"a", "</p>", "<br>", "a">>
    /\ text = <<"a", NL, NL, "a">>

(***************************************************************************)
(* C7, as the specification states it: transducing a content again gives   *)
(* the content back.                                                       *)
(***************************************************************************)
C7_Idempotent == pc = "again" => retext = text

\* The content holds a named entity the transducer decodes.
HasEntity(s) == \E i \in 1..(Len(s) - 1) : s[i] = Amp /\ s[i + 1] \in EntityNames
OneLine(s) == \A i \in 1..Len(s) : s[i] # NL

(***************************************************************************)
(* C7, amended: transducing a content again gives the content back when    *)
(* the content is one line and holds no named entity; a content of more    *)
(* than one line (paragraph breaks, bullet lines) never comes back         *)
(* unchanged.                                                              *)
(***************************************************************************)
C7_IdempotentOnPlainLines ==
    pc = "again" =>
        /\ OneLine(text) /\ ~HasEntity(text) => retext = text
        /\ ~OneLine(text) => retext # text

\* A one-line content that comes from markup with a tag and a line break.
C7_Witness ==
    /\ pc = "again"
    /\ html = <<"<p>", "a", NL, "a">>
    /\ text = <<"a", SP, "a">>
    /\ retext = text

(***************************************************************************)
(* The cover declarations of the package document, read off the archive    *)
(***************************************************************************)
Elements(doc, tag) == {doc[k] : k \in {j \in 1..Len(doc) : doc[j].tag = tag}}

\* The ids the meta elements of name cover give.
CoverMetaIds ==
    {AttrOf(e, "content") : e \in {m \in Elements(archive.opf, "meta") :
                                      HasAttr(m, "name") /\ AttrOf(m, "name") = "cover"}}

\* The properties values that hold the token cover-image.
CoverImageProperties == {"cover-image", "cover-image svg", "svg cover-image"}

\* The manifest items with the token cover-image among their properties.
CoverImageItems ==
    {e \in Elements(archive.opf, "item") :
        HasAttr(e, "properties") /\ AttrOf(e, "properties") \in CoverImageProperties}

\* The manifest items the meta cover ids name.
CoverMetaItems ==
    {e \in Elements(archive.opf, "item") : AttrOf(e, "id") \in CoverMetaIds}

EntryOf(e) == OpfDir \o <<AttrOf(e, "href")>>
Usable(e) == EntryOf(e) \in archive.present /\ EntryOf(e) \notin archive.corrupt
ImageOf(e) == DataUri(AttrOf(e, "href"), EntryOf(e))

\* loadEpub has set the metadata: it stands before or after extractChapters.
MetadataSet == pc \in {"chapters", "done"}
\* loadEpub ended in its catch block on something other than the download.
FailedOnEntry == pc = "failed" /\ error # <<"Failed to load EPUB: ", DownloadError>>

(***************************************************************************)
(* C3: with a readable package document, a missing dc:title, dc:creator or *)
(* cover declaration never fails the load: the placeholder stands for what *)
(* is missing and the chapters are delivered.                              *)
(***************************************************************************)
C3_MissingMetadataLoads ==
    LET noTitle == Elements(archive.opf, "dc:title") = {}
        noCreator == Elements(archive.opf, "dc:creator") = {}
        noCover == CoverMetaIds = {} /\ CoverImageItems = {}
    IN  Readable /\ (noTitle \/ noCreator \/ noCover) =>
            /\ ~FailedOnEntry
            /\ MetadataSet =>
                   /\ noTitle => metadata.title = UnknownTitle
                   /\ noCreator => metadata.author = UnknownAuthor
                   /\ noCover => metadata.coverImage = Null
            /\ pc = "done" => Len(chapters) = Len(SelectSeq(chapterFiles, Delivered))

(***************************************************************************)
(* C4: when the meta cover strategy yields no usable cover (no meta cover, *)
(* no manifest item of its id, or an item whose entry is not in the        *)
(* archive) and a cover-image item has its entry in the archive, the cover *)
(* is that of the cover-image item.                                        *)
(***************************************************************************)
C4_CoverFallsThrough ==
    \A e \in CoverImageItems :
        /\ Readable
        /\ MetadataSet
        /\ AttrOf(e, "properties") = "cover-image"
        /\ Usable(e)
        /\ \A m \in CoverMetaItems : EntryOf(m) \notin archive.present
        => metadata.coverImage = ImageOf(e)

(***************************************************************************)
(* C5: when every cover the package document declares fails (its id names  *)
(* no item, its entry is missing, or the read of its entry rejects), the   *)
(* load does not fail on it: the cover is null and the chapters come.      *)
(***************************************************************************)
C5_CoverFailureLoads ==
    /\ Readable
    /\ CoverMetaIds # {} \/ CoverImageItems # {}
    /\ \A e \in CoverMetaItems \cup CoverImageItems : ~Usable(e)
    => /\ ~FailedOnEntry
       /\ MetadataSet => metadata.coverImage = Null
       /\ pc = "done" => Len(chapters) = Len(SelectSeq(chapterFiles, Delivered))

(***************************************************************************)
(* C8: writing the attributes of one cover meta element (name, content) or *)
(* of one manifest item (id, href) in the other order changes neither the  *)
(* cover id, nor the cover href, nor the chapter paths.                    *)
(***************************************************************************)
\* Element e with its attributes a and b in each other's place.
Swapped(e, a, b) ==
    [e EXCEPT !.attrs =
        [p \in 1..Len(e.attrs) |->
            IF e.attrs[p][1] = a THEN <<b, AttrOf(e, b)>>
            ELSE IF e.attrs[p][1] = b THEN <<a, AttrOf(e, a)>>
            ELSE e.attrs[p]]]

\* The package document with its k-th element written the other way round.
SwappedAt(doc, k) ==
    [doc EXCEPT ![k] =
        IF doc[k].tag = "meta" THEN Swapped(doc[k], "name", "content")
        ELSE IF doc[k].tag = "item" THEN Swapped(doc[k], "id", "href")
        ELSE doc[k]]

C8_AttributeOrder ==
    pc = "done" =>
        \A k \in 1..Len(archive.opf) :
            /\ CoverId(SwappedAt(archive.opf, k)) = CoverId(archive.opf)
            /\ CoverHref(SwappedAt(archive.opf, k), CoverId(archive.opf))
                   = CoverHref(archive.opf, CoverId(archive.opf))
            /\ ChapterPaths(SwappedAt(archive.opf, k), OpfDir) = chapterFiles

(***************************************************************************)
(* C9: without a meta cover, a manifest item whose properties hold the     *)
(* token cover-image, alone or among other tokens, href before or after,   *)
(* gives the cover.                                                        *)
(***************************************************************************)
C9_CoverImageToken ==
    \A e \in CoverImageItems :
        Readable /\ MetadataSet /\ CoverMetaIds = {} /\ Usable(e)
        => metadata.coverImage = ImageOf(e)

(***************************************************************************)
(* C11: no line of the content extractTextFromHtml returns is a bullet     *)
(* marker with no text after it.                                           *)
(***************************************************************************)
\* Token i of s is a bullet marker that stands alone on its line.
BulletAlone(s, i) ==
    /\ s[i] = Bullet
    /\ i = 1 \/ s[i - 1] = NL
    /\ i = Len(s) \/ s[i + 1] = NL

C11_NoEmptyBullets ==
    pc \in {"content", "again"} => \A i \in 1..Len(text) : ~BulletAlone(text, i)

(***************************************************************************)
(* C12: the content extractTextFromHtml returns holds none of the named    *)
(* entities the transducer decodes.                                        *)
(***************************************************************************)
C12_NoEntityRemains ==
    /\ pc \in {"content", "again"} => ~HasEntity(text)
    /\ pc = "again" => ~HasEntity(retext)

(***************************************************************************)
(* C13: the title of a markup is the trimmed text, without its tags, of    *)
(* the first h1 element when there is one, else of the first h2 element,   *)
(* else of the title element, and 'Chapter' when there is none of them.    *)
(***************************************************************************)
\* The opening tags of s in open that a closing tag in close follows.
ElementsAt(s, open, close) ==
    {i \in 1..Len(s) : s[i] \in open /\ \E j \in (i + 1)..Len(s) : s[j] \in close}

\* The text of the first such element, without its tags, trimmed.
FirstElementText(s, open, close) ==
    LET i == Min(ElementsAt(s, open, close))
        j == Min({k \in (i + 1)..Len(s) : s[k] \in close})
    IN  Trim(SelectSeq(SubSeq(s, i + 1, j - 1), LAMBDA t : t \notin Tags))

TitleByPriority(s) ==
    IF ElementsAt(s, TagH1Open, TagH1Close) # {}
        THEN FirstElementText(s, TagH1Open, TagH1Close)
    ELSE IF ElementsAt(s, TagH2Open, TagH2Close) # {}
        THEN FirstElementText(s, TagH2Open, TagH2Close)
    ELSE IF ElementsAt(s, TagTitleOpen, TagTitleClose) # {}
        THEN FirstElementText(s, TagTitleOpen, TagTitleClose)
    ELSE <<"Chapter">>

C13_TitlePriority ==
    pc \in {"content", "again"} => chapters[1].title = TitleByPriority(html)

(***************************************************************************)
(* C14: when two manifest items carry the same id, the first of them in    *)
(* the package document gives the href, of the cover when the meta cover   *)
(* names the id and of the chapter when the spine names it.                *)
(***************************************************************************)
\* The places in the manifest of the items of this very id.
ItemsOfId(doc, id) ==
    {k \in 1..Len(ManifestOf(doc)) : AttrOf(ManifestOf(doc)[k], "id") = id}

FirstItemOfId(doc, id) == ManifestOf(doc)[Min(ItemsOfId(doc, id))]

Duplicated(doc, id) == Cardinality(ItemsOfId(doc, id)) >= 2

\* The cover is that of the first item of a duplicated cover id.
CoverOfFirstDuplicate ==
    \A id \in CoverMetaIds :
        Duplicated(archive.opf, id) /\ Usable(FirstItemOfId(archive.opf, id))
        => metadata.coverImage = ImageOf(FirstItemOfId(archive.opf, id))

\* The chapter path is that of the first item of a duplicated spine id.
ChapterOfFirstDuplicate ==
    LET spine == SpineOf(archive.opf)
    IN  Len(chapterFiles) = Len(spine) =>
            \A k \in 1..Len(spine) :
                Duplicated(archive.opf, spine[k])
                => chapterFiles[k] = EntryOf(FirstItemOfId(archive.opf, spine[k]))

C14_FirstDuplicateWins ==
    pc = "done" => CoverOfFirstDuplicate /\ ChapterOfFirstDuplicate

(***************************************************************************)
(* C15: an id resolves only to a manifest item of the same id in the same  *)
(* letter case: a cover id that no item carries letter for letter gives no *)
(* cover, and a spine idref that no item carries letter for letter gives   *)
(* no chapter.                                                             *)
(***************************************************************************)
\* The cover id names no item, and no item declares itself the cover.
CoverIdAbsent == CoverMetaIds # {} /\ CoverMetaItems = {} /\ CoverImageItems = {}

\* The spine idrefs that an item carries letter for letter.
ExactIdrefs ==
    SelectSeq(SpineOf(archive.opf),
              LAMBDA id : ItemsOfId(archive.opf, id) # {})

C15_CaseSensitiveIds ==
    pc = "done" =>
        /\ CoverIdAbsent => metadata.coverImage = Null
        /\ Len(chapterFiles) = Len(ExactIdrefs)
        /\ \A k \in 1..Len(ExactIdrefs) :
               \E j \in ItemsOfId(archive.opf, ExactIdrefs[k]) :
                   chapterFiles[k] = EntryOf(ManifestOf(archive.opf)[j])

(***************************************************************************)
(* C16: the font size starts at 16, stays between 12 and 32, and every     *)
(* step that changes it changes it by exactly 2: no step raises it from 32 *)
(* or lowers it from 12.                                                   *)
(***************************************************************************)
C16_FontSizeRange ==
    /\ [](fontSize >= 12 /\ fontSize <= 32)
    /\ [][fontSize' # fontSize =>
            fontSize' = fontSize + 2 \/ fontSize' = fontSize - 2]_vars
    /\ (pc = "mount" => fontSize = 16)

\* The size has been raised from 16 to the largest one.
C16_Witness == ReaderView /\ fontSize = 32 /\ pc = "done"

(***************************************************************************)
(* C17: a load that completes, the first one or one the Retry button       *)
(* started after a failure, leaves the error empty and shows the reader    *)
(* view with the metadata and the chapters it extracted.                   *)
(***************************************************************************)
C17_RetryClearsError ==
    pc = "done" =>
        /\ error = <<>>
        /\ ReaderView
        /\ metadata # InitialMetadata
        /\ Len(chapters) = Len(SelectSeq(chapterFiles, Delivered))

(***************************************************************************)
(* C18: currentChapter is always an index of chapters (0 when there is no  *)
(* chapter), it moves by one chapter at a time, and no step moves it past  *)
(* the last chapter or before chapter 0.                                   *)
(***************************************************************************)
ValidChapterIndex ==
    /\ currentChapter >= 0
    /\ chapters = <<>> => currentChapter = 0
    /\ chapters # <<>> => currentChapter <= Len(chapters) - 1

C18_ValidChapter ==
    /\ []ValidChapterIndex
    /\ [][/\ currentChapter' # currentChapter =>
                 \/ currentChapter' = currentChapter + 1
                 \/ currentChapter' = currentChapter - 1
          /\ currentChapter = Len(chapters) - 1 => currentChapter' <= currentChapter
          /\ currentChapter = 0 => currentChapter' >= 0]_vars

\* The reader stands at the last of three chapters.
C18_Witness ==
    /\ pc = "done"
    /\ ReaderView
    /\ Len(chapters) = 3
    /\ currentChapter = 2

(***************************************************************************)
(* C19: whenever loading is true, the load started by the mount effect or  *)
(* by Retry, it is eventually false, whether the load reaches its end or   *)
(* fails on the way.                                                       *)
(***************************************************************************)
C19_LoadingEnds == loading ~> ~loading

\* A load that Retry started after a rejected download has failed on a
\* rejected read, and the loading screen is gone.
C19_Witness ==
    /\ pc = "failed"
    /\ ~loading
    /\ error = <<"Failed to load EPUB: ", ReadError>>
    /\ ReadRejects(archive, ContainerPath)

=============================================================================
